---------------------------- MODULE Spec2Model ----------------------------
(***************************************************************************)
(* Model of QuantumRandomWalks/post_processing.py: the ResultsDataframe    *)
(* wrapper and its transformations filter_connected_columns,               *)
(* add_max_and_avg, convert_to_decimal, postprocess_superposition and      *)
(* postprocess_one_node.                                                   *)
(*                                                                         *)
(* A column label is a sequence of one-character strings, so that          *)
(* formatting (f'{i:0{w}b}'), str.split() and int(s, 2) are computed       *)
(* character by character; a character outside printable ASCII is written  *)
(* by its code point, "U+0009".  A cell is a record: a float64             *)
(* [tag |-> "num", m, e] of value m * 2^e, or a string cell such as        *)
(* [tag |-> "P-max"].  A DataFrame is [cols, rows] with a default          *)
(* RangeIndex: rows[r][c] is the cell of row r under the c-th column.      *)
(***************************************************************************)
EXTENDS Integers, Sequences, FiniteSets, TLC

\* ------------------------------------------------------------- bounds
MaxNodes == 3      \* adjacency matrices are n x n for n in 1..MaxNodes
MaxRows == 2       \* raw tables hold 1..MaxRows rows
MaxOps == 2        \* method calls made in one behaviour
MaxNameLen == 5    \* length of the free-form column labels
MaxBits == 4       \* bit-widths 1..MaxBits of the pair labels that are relabelled

\* ------------------------------------------------------------ integers
Max2(a, b) == IF a >= b THEN a ELSE b

RECURSIVE Pow2(_)
Pow2(b) == IF b = 0 THEN 1 ELSE 2 * Pow2(b - 1)

\* ------------------------------------------------- natural numbers, exact
\* The significands of float64 arithmetic need more than machine integers:
\* a natural number is a sequence of limbs (digits in base 2^15), most
\* significant first, without leading zero limbs; <<>> is 0.
LimbBits == 15

LimbBase == Pow2(LimbBits)

RECURSIVE BTrim(_)
BTrim(x) == IF x # <<>> /\ Head(x) = 0 THEN BTrim(Tail(x)) ELSE x

RECURSIVE ZeroLimbs(_)
ZeroLimbs(k) == IF k <= 0 THEN <<>> ELSE <<0>> \o ZeroLimbs(k - 1)

Front(x) == IF x = <<>> THEN <<>> ELSE SubSeq(x, 1, Len(x) - 1)

LastLimb(x) == IF x = <<>> THEN 0 ELSE x[Len(x)]

RECURSIVE BFromInt(_)
BFromInt(v) == IF v = 0 THEN <<>> ELSE BFromInt(v \div LimbBase) \o <<v % LimbBase>>

\* x + y + c, c a carry
RECURSIVE BAddC(_, _, _)
BAddC(x, y, c) ==
  IF x = <<>> /\ y = <<>> THEN BFromInt(c)
  ELSE LET s == LastLimb(x) + LastLimb(y) + c
       IN  BAddC(Front(x), Front(y), s \div LimbBase) \o <<s % LimbBase>>

\* x * k + c for 0 <= k <= 2^15
RECURSIVE BMulC(_, _, _)
BMulC(x, k, c) ==
  IF x = <<>> THEN BFromInt(c)
  ELSE LET p == LastLimb(x) * k + c
       IN  BMulC(Front(x), k, p \div LimbBase) \o <<p % LimbBase>>

\* x * 2^k
BShl(x, k) ==
  BTrim(BMulC(x, Pow2(k % LimbBits), 0) \o (IF x = <<>> THEN <<>> ELSE ZeroLimbs(k \div LimbBits)))

\* long division of x, preceded by the remainder r, by 0 < n <= 2^16:
\* the quotient's limbs (not trimmed) and the remainder
RECURSIVE BDivR(_, _, _)
BDivR(x, n, r) ==
  IF x = <<>> THEN [q |-> <<>>, r |-> r]
  ELSE LET cur == r * LimbBase + Head(x)
           rest == BDivR(Tail(x), n, cur % n)
       IN  [q |-> <<cur \div n>> \o rest.q, r |-> rest.r]

\* x \div 2^k, and whether a nonzero remainder was dropped
BShr(x, k) ==
  LET keep == Max2(Len(x) - k \div LimbBits, 0)
      d == BDivR(SubSeq(x, 1, keep), Pow2(k % LimbBits), 0)
  IN  [q |-> BTrim(d.q),
       sticky |-> d.r # 0 \/ \E l \in (keep + 1)..Len(x) : x[l] # 0]

BOdd(x) == LastLimb(x) % 2 = 1

RECURSIVE IntBitLen(_)
IntBitLen(v) == IF v = 0 THEN 0 ELSE 1 + IntBitLen(v \div 2)

\* the number of binary digits of x
BBitLen(x) == IF x = <<>> THEN 0 ELSE LimbBits * (Len(x) - 1) + IntBitLen(x[1])

\* ------------------------------------------------------------- float64
\* The table's numbers are float64.  A finite float64 x >= 0 is m * 2^e
\* with a 53-bit significand m: either 2^52 <= m < 2^53 (normal) or
\* e = -1074 (subnormal, zero included).  A numeric cell is
\* [tag |-> "num", m, e] with m held as four limbs, so that equal numbers
\* are equal cells.  Negative numbers, infinities and NaN are not modelled:
\* the cells are time indices and probabilities.
SignificandBits == 53

MinExponent == 0 - 1074

SignificandLimbs == 4

Float(m, e) ==
  [tag |-> "num", m |-> ZeroLimbs(SignificandLimbs - Len(m)) \o m, e |-> e]

Str(s) == [tag |-> s, m |-> ZeroLimbs(SignificandLimbs), e |-> 0]

IsNum(c) == c.tag = "num"

IsZero(c) == BTrim(c.m) = <<>>

\* the float64 nearest to M * 2^E, ties to the even significand; sticky
\* says that a nonzero fraction of 2^E was dropped from M (M then keeps at
\* least two binary places below the result's last place)
RoundToFloat(M, E, sticky) ==
  LET e == Max2(E + BBitLen(M) - SignificandBits, MinExponent)
      s == e - E
  IN  IF M = <<>> THEN Float(<<>>, MinExponent)
      ELSE IF s <= 0 THEN Float(BShl(M, 0 - s), e)
      ELSE LET cut == BShr(M, s - 1)
               q == BTrim(BDivR(cut.q, 2, 0).q)
               up == BOdd(cut.q) /\ (cut.sticky \/ sticky \/ BOdd(q))
               m == IF up THEN BAddC(q, <<>>, 1) ELSE q
           IN  IF BBitLen(m) > SignificandBits
               THEN Float(BTrim(BDivR(m, 2, 0).q), e + 1)
               ELSE Float(m, e)

\* float(v) for an integer 0 <= v < 2^31
FloatOfInt(v) == RoundToFloat(BFromInt(v), 0, FALSE)

GuardBits == 80

\* the float64 nearest to the quotient of M * 2^E by 0 < n <= 2^16
RoundedQuotient(M, E, n) ==
  LET d == BDivR(BShl(M, GuardBits), n, 0)
  IN  RoundToFloat(BTrim(d.q), E - GuardBits, d.r # 0)

\* the float64 a decimal literal n/d denotes (0.3 is FloatOfRatio(3, 10))
FloatOfRatio(n, d) == RoundedQuotient(BFromInt(n), 0, d)

\* a <= b for numeric cells
RECURSIVE LimbsLeq(_, _)
LimbsLeq(x, y) ==
  \/ x = <<>>
  \/ Head(x) < Head(y)
  \/ Head(x) = Head(y) /\ LimbsLeq(Tail(x), Tail(y))

Leq(a, b) == a.e < b.e \/ (a.e = b.e /\ LimbsLeq(a.m, b.m))

\* the significand of a farther than this below the other operand's
\* cannot reach the rounding position
FarBelow == 60

\* a + b in float64: the exact sum, rounded once
Plus(a, b) ==
  LET hi == IF a.e >= b.e THEN a ELSE b
      lo == IF a.e >= b.e THEN b ELSE a
      d == hi.e - lo.e
  IN  IF IsZero(lo) THEN hi
      ELSE IF IsZero(hi) THEN lo
      ELSE IF d > FarBelow THEN RoundToFloat(BShl(BTrim(hi.m), 2), hi.e - 2, TRUE)
      ELSE RoundToFloat(BAddC(BShl(BTrim(hi.m), d), BTrim(lo.m), 0), lo.e, FALSE)

\* a / n in float64 for a row count 0 < n <= 2^16
DividedBy(a, n) == RoundedQuotient(BTrim(a.m), a.e, n)

\* -------------------------------------------------------- column labels
Time == <<"T", "i", "m", "e">>

\* the characters whose decimal digit value is 0 / is 1 (Unicode 14)
ZeroDigits ==
  {"0", "U+0660", "U+06F0", "U+07C0", "U+0966", "U+09E6", "U+0A66",
   "U+0AE6", "U+0B66", "U+0BE6", "U+0C66", "U+0CE6", "U+0D66", "U+0DE6",
   "U+0E50", "U+0ED0", "U+0F20", "U+1040", "U+1090", "U+17E0", "U+1810",
   "U+1946", "U+19D0", "U+1A80", "U+1A90", "U+1B50", "U+1BB0", "U+1C40",
   "U+1C50", "U+A620", "U+A8D0", "U+A900", "U+A9D0", "U+A9F0", "U+AA50",
   "U+ABF0", "U+FF10", "U+104A0", "U+10D30", "U+11066", "U+110F0",
   "U+11136", "U+111D0", "U+112F0", "U+11450", "U+114D0", "U+11650",
   "U+116C0", "U+11730", "U+118E0", "U+11950", "U+11C50", "U+11D50",
   "U+11DA0", "U+16A60", "U+16AC0", "U+16B50", "U+1D7CE", "U+1D7D8",
   "U+1D7E2", "U+1D7EC", "U+1D7F6", "U+1E140", "U+1E2F0", "U+1E950",
   "U+1FBF0"}

OneDigits ==
  {"1", "U+0661", "U+06F1", "U+07C1", "U+0967", "U+09E7", "U+0A67",
   "U+0AE7", "U+0B67", "U+0BE7", "U+0C67", "U+0CE7", "U+0D67", "U+0DE7",
   "U+0E51", "U+0ED1", "U+0F21", "U+1041", "U+1091", "U+17E1", "U+1811",
   "U+1947", "U+19D1", "U+1A81", "U+1A91", "U+1B51", "U+1BB1", "U+1C41",
   "U+1C51", "U+A621", "U+A8D1", "U+A901", "U+A9D1", "U+A9F1", "U+AA51",
   "U+ABF1", "U+FF11", "U+104A1", "U+10D31", "U+11067", "U+110F1",
   "U+11137", "U+111D1", "U+112F1", "U+11451", "U+114D1", "U+11651",
   "U+116C1", "U+11731", "U+118E1", "U+11951", "U+11C51", "U+11D51",
   "U+11DA1", "U+16A61", "U+16AC1", "U+16B51", "U+1D7CF", "U+1D7D9",
   "U+1D7E3", "U+1D7ED", "U+1D7F7", "U+1E141", "U+1E2F1", "U+1E951",
   "U+1FBF1"}

\* the characters int(s, 2) reads as a digit
BinaryDigits == ZeroDigits \cup OneDigits

DecimalDigit(v) == <<"0", "1", "2", "3", "4", "5", "6", "7", "8", "9">>[v + 1]

\* format(v, 'b') / str(v) for v >= 0 in the given base (2 or 10)
RECURSIVE Digits(_, _)
Digits(v, base) ==
  IF v < base THEN <<DecimalDigit(v)>>
  ELSE Digits(v \div base, base) \o <<DecimalDigit(v % base)>>

RECURSIVE Zeros(_)
Zeros(k) == IF k <= 0 THEN <<>> ELSE <<"0">> \o Zeros(k - 1)

\* f'{i:0{w}b}': binary digits of i, zero-padded on the left to width w
\* (a width of 0 pads nothing: format(0, '00b') is '0').
FormatBin(i, w) ==
  LET ds == Digits(i, 2)
  IN  Zeros(w - Len(ds)) \o ds

\* f'{i:0{w}b} {j:0{w}b}'
PairName(i, j, w) == FormatBin(i, w) \o <<" ">> \o FormatBin(j, w)

\* FormatInt writing the number in base 2
FormatIntBinary(v) == IF v < 0 THEN <<"-">> \o Digits(-v, 2) ELSE Digits(v, 2)

\* str(v) for any integer v
FormatInt(v) == IF v < 0 THEN <<"-">> \o Digits(-v, 10) ELSE Digits(v, 10)


\* ---------------------------------------------------- str.split(), int()
\* the characters str.isspace() holds of (Unicode 14): str.split() splits
\* at every one of them
Whitespace ==
  {"U+0009", "U+000A", "U+000B", "U+000C", "U+000D", "U+001C", "U+001D",
   "U+001E", "U+001F", " ", "U+0085", "U+00A0", "U+1680", "U+2000",
   "U+2001", "U+2002", "U+2003", "U+2004", "U+2005", "U+2006", "U+2007",
   "U+2008", "U+2009", "U+200A", "U+2028", "U+2029", "U+202F", "U+205F",
   "U+3000"}

\* the first token of s after skipping leading whitespace, and what follows
RECURSIVE SkipSpace(_)
SkipSpace(s) ==
  IF s # <<>> /\ Head(s) \in Whitespace THEN SkipSpace(Tail(s)) ELSE s

RECURSIVE TakeToken(_)
TakeToken(s) ==
  IF s = <<>> \/ Head(s) \in Whitespace THEN <<>>
  ELSE <<Head(s)>> \o TakeToken(Tail(s))

\* col.split(): the maximal runs of non-whitespace characters, in order
RECURSIVE Split(_)
Split(s) ==
  LET r == SkipSpace(s)
      t == TakeToken(r)
  IN  IF r = <<>> THEN <<>>
      ELSE <<t>> \o Split(SubSeq(r, Len(t) + 1, Len(r)))

\* the digits of a literal body: binary digits with single underscores
\* between them only
RECURSIVE DigitBodyOk(_, _)
DigitBodyOk(s, prev) ==
  IF s = <<>> THEN prev # "_"
  ELSE IF Head(s) = "_" THEN prev # "_" /\ DigitBodyOk(Tail(s), "_")
  ELSE Head(s) \in BinaryDigits /\ DigitBodyOk(Tail(s), Head(s))

RECURSIVE DigitBodyValue(_, _)
DigitBodyValue(s, acc) ==
  IF s = <<>> THEN acc
  ELSE IF Head(s) = "_" THEN DigitBodyValue(Tail(s), acc)
  ELSE DigitBodyValue(Tail(s), 2 * acc + (IF Head(s) \in OneDigits THEN 1 ELSE 0))

\* int(tok, 2) on a token without whitespace: an optional sign, an optional
\* "0b"/"0B" prefix (one underscore may follow it), then the digits.  Every
\* decimal digit character is read as the ASCII digit of its value before
\* the literal is parsed, so the 0 of the prefix may be any zero digit.
\* [ok |-> FALSE] stands for ValueError.
IntBase2(tok) ==
  LET signed == tok # <<>> /\ Head(tok) \in {"+", "-"}
      neg == tok # <<>> /\ Head(tok) = "-"
      s1 == IF signed THEN Tail(tok) ELSE tok
      prefixed == Len(s1) >= 2 /\ s1[1] \in ZeroDigits /\ s1[2] \in {"b", "B"}
      s2 == IF prefixed THEN SubSeq(s1, 3, Len(s1)) ELSE s1
      s3 == IF prefixed /\ s2 # <<>> /\ Head(s2) = "_" THEN Tail(s2) ELSE s2
      ok == s3 # <<>> /\ Head(s3) # "_" /\ DigitBodyOk(s3, "0")
      v == IF ok THEN DigitBodyValue(s3, 0) ELSE 0
  IN  [ok |-> ok, v |-> IF neg THEN -v ELSE v]

\* ConvertName joining the two numbers with " -"
ConvertNameStraySpace(col) ==
  IF col = Time THEN col
  ELSE LET parts == Split(col)
       IN  IF Len(parts) # 2 THEN col
           ELSE LET a == IntBase2(parts[1])
                    b == IntBase2(parts[2])
                IN  IF a.ok /\ b.ok
                    THEN FormatInt(a.v) \o <<" ", "-">> \o FormatInt(b.v)
                    ELSE col

\* one iteration of the loop of convert_to_decimal: new_columns[col]
ConvertName(col) ==
  IF col = Time THEN col
  ELSE LET parts == Split(col)
       IN  IF Len(parts) # 2 THEN col
           ELSE LET a == IntBase2(parts[1])
                    b == IntBase2(parts[2])
                IN  IF a.ok /\ b.ok
                    THEN FormatInt(a.v) \o <<"-">> \o FormatInt(b.v)
                    ELSE col

\* ----------------------------------------------------------- DataFrame
NoTable == [cols |-> <<>>, rows |-> <<>>]

\* the positions of the columns of t, in column order (self.df.columns)
ColumnPositions(t) == [c \in 1..Len(t.cols) |-> c]

\* df[labels]: a new frame made of the columns at the positions idx, in that
\* order, every row kept (labels are unique in every frame of the model)
SelectColumns(t, idx) ==
  [cols |-> [k \in 1..Len(idx) |-> t.cols[idx[k]]],
   rows |-> [r \in 1..Len(t.rows) |->
               [k \in 1..Len(idx) |-> t.rows[r][idx[k]]]]]

\* math.ceil(math.log2(num_nodes))
NumBits(n) == CHOOSE b \in 0..n : Pow2(b) >= n /\ \A c \in 0..(b - 1) : Pow2(c) < n

\* RealConnections with the matrix read as A[j, i]
RealConnectionsTransposed(A) ==
  LET n == Len(A)
  IN  {PairName(i, j, NumBits(n)) :
         <<i, j>> \in {p \in (0..(n - 1)) \X (0..(n - 1)) : A[p[2] + 1][p[1] + 1] # 0}}

\* the set real_connections of filter_connected_columns
RealConnections(A) ==
  LET n == Len(A)
  IN  {PairName(i, j, NumBits(n)) :
         <<i, j>> \in {p \in (0..(n - 1)) \X (0..(n - 1)) : A[p[1] + 1][p[2] + 1] # 0}}

\* the set same_nodes of filter_connected_columns
SameNodes(A) ==
  LET n == Len(A)
  IN  {PairName(i, i, NumBits(n)) : i \in 0..(n - 1)}

\* self.df[columns_to_keep] of filter_connected_columns
FilterTable(t, A) ==
  LET real_connections == RealConnections(A)
      same_nodes == SameNodes(A)
      keep1 == SelectSeq(ColumnPositions(t), LAMBDA c : t.cols[c] \notin real_connections)
      keep2 == SelectSeq(keep1, LAMBDA c : t.cols[c] \notin same_nodes)
  IN  SelectColumns(t, keep2)

\* Series.max() of the column at position c
RECURSIVE ColMaxFrom(_, _, _)
ColMaxFrom(t, c, r) ==
  IF r = Len(t.rows) THEN t.rows[r][c]
  ELSE LET rest == ColMaxFrom(t, c, r + 1)
       IN  IF Leq(rest, t.rows[r][c]) THEN t.rows[r][c] ELSE rest

ColMax(t, c) == ColMaxFrom(t, c, 1)

\* the sum of the first r cells of the column at position c, accumulated
\* from an initial 0.0 in row order (the order of the reduction for fewer
\* than 8 rows)
RECURSIVE ColSumTo(_, _, _)
ColSumTo(t, c, r) ==
  IF r = 0 THEN FloatOfInt(0)
  ELSE Plus(ColSumTo(t, c, r - 1), t.rows[r][c])

\* Series.mean() of the column at position c: the sum over the row count
ColMean(t, c) == DividedBy(ColSumTo(t, c, Len(t.rows)), Len(t.rows))

\* self.df.drop('Time', axis=1): the positions of the columns that stay
DropTime(t) == SelectSeq(ColumnPositions(t), LAMBDA c : t.cols[c] # Time)

\* self.df.loc[len(self.df)] = [label] + stats.tolist(): the list is laid
\* over the columns by position, whatever their labels, as one more row
AppendRow(t, label, stats) ==
  [t EXCEPT !.rows = Append(@, <<Str(label)>> \o stats)]

\* WithMaxAndAvg taking the means after the P-max row has been appended
WithMaxAndAvgOverAppended(t) ==
  LET data == DropTime(t)
      p_max == [k \in 1..Len(data) |-> ColMax(t, data[k])]
      with_max == AppendRow(t, "P-max", p_max)
      p_avg == [k \in 1..Len(data) |-> ColMean(with_max, data[k])]
  IN  AppendRow(with_max, "P-avg", p_avg)

\* lines 118-121 of add_max_and_avg on a frame that has a Time column and
\* numeric data columns
WithMaxAndAvg(t) ==
  LET data == DropTime(t)
      p_max == [k \in 1..Len(data) |-> ColMax(t, data[k])]
      p_avg == [k \in 1..Len(data) |-> ColMean(t, data[k])]
  IN  AppendRow(AppendRow(t, "P-max", p_max), "P-avg", p_avg)

HasTime(t) == \E c \in 1..Len(t.cols) : t.cols[c] = Time

\* every cell outside the Time column is a number
NumericData(t) ==
  \A c \in 1..Len(t.cols) : t.cols[c] # Time =>
     \A r \in 1..Len(t.rows) : IsNum(t.rows[r][c])

\* the mapping new_columns applied by rename(columns=new_columns)
RenamedColumns(t) == [c \in 1..Len(t.cols) |-> ConvertName(t.cols[c])]

\* --------------------------------------------------------------- state
VARIABLES
  input,    \* the raw table as the simulator produced it (never assigned)
  A,        \* the adjacency matrix of the walk's graph, a sequence of rows
  raw,      \* the caller's DataFrame object, passed to every constructor
  own,      \* own[i]: the DataFrame object instance i created for itself
  alias,    \* alias[i]: self.df of instance i still is the caller's object
  outcome,  \* outcome[i]: "self" (returned) or the exception of the last call
  hist      \* the calls made so far, [op, inst], in order

vars == <<input, A, raw, own, alias, outcome, hist>>

Instances == {1, 2}

\* __init__: self.df = df stores the reference, no copy is made
ResultsDataframe(df) == [raw |-> df, own |-> NoTable, alias |-> TRUE, out |-> "self"]

\* instance i together with the caller's object it may share
Self(i) == [raw |-> raw, own |-> own[i], alias |-> alias[i], out |-> "self"]

\* self.df
DF(s) == IF s.alias THEN s.raw ELSE s.own

\* self.df = t, t a new object
Rebind(s, t) == [s EXCEPT !.own = t, !.alias = FALSE]

Raise(s, exc) == [s EXCEPT !.out = exc]

filter_connected_columns(s, adj) == Rebind(s, FilterTable(DF(s), adj))

\* add_max_and_avg dropping the Time column only if there is one
add_max_and_avg_lenient(s) ==
  LET copy == Rebind(s, DF(s))
  IN  IF ~NumericData(DF(copy)) THEN Raise(copy, "TypeError")
      ELSE Rebind(copy, WithMaxAndAvg(DF(copy)))

\* self.df is first replaced by its copy; drop('Time') raises KeyError when
\* no column is labelled Time; max()/mean() over a data column that holds a
\* string cell raise as well (no row is appended in either case)
add_max_and_avg(s) ==
  LET copy == Rebind(s, DF(s))
  IN  IF ~HasTime(DF(copy)) THEN Raise(copy, "KeyError")
      ELSE IF ~NumericData(DF(copy)) THEN Raise(copy, "TypeError")
      ELSE Rebind(copy, WithMaxAndAvg(DF(copy)))

\* rename(..., inplace=True) relabels the object self.df refers to
convert_to_decimal(s) ==
  IF s.alias THEN [s EXCEPT !.raw.cols = RenamedColumns(s.raw)]
  ELSE [s EXCEPT !.own.cols = RenamedColumns(s.own)]

postprocess_superposition(s, adj) ==
  LET summed == add_max_and_avg(filter_connected_columns(s, adj))
  IN  IF summed.out # "self" THEN summed ELSE convert_to_decimal(summed)

postprocess_one_node(s) == add_max_and_avg(s)

\* the call op on instance i ended in state s
Return(i, op, s) ==
  /\ raw' = s.raw
  /\ own' = [own EXCEPT ![i] = s.own]
  /\ alias' = [alias EXCEPT ![i] = s.alias]
  /\ outcome' = [outcome EXCEPT ![i] = s.out]
  /\ hist' = Append(hist, [op |-> op, inst |-> i])
  /\ UNCHANGED <<input, A>>

CallFilter(i) ==
  /\ Len(hist) < MaxOps
  /\ Return(i, "filter_connected_columns", filter_connected_columns(Self(i), A))

CallAddMaxAndAvg(i) ==
  /\ Len(hist) < MaxOps
  /\ Return(i, "add_max_and_avg", add_max_and_avg(Self(i)))

CallConvert(i) ==
  /\ Len(hist) < MaxOps
  /\ Return(i, "convert_to_decimal", convert_to_decimal(Self(i)))

CallSuperposition(i) ==
  /\ Len(hist) < MaxOps
  /\ Return(i, "postprocess_superposition", postprocess_superposition(Self(i), A))

CallOneNode(i) ==
  /\ Len(hist) < MaxOps
  /\ Return(i, "postprocess_one_node", postprocess_one_node(Self(i)))

\* ------------------------------------------------------------ raw tables
\* the adjacency matrix over n nodes whose nonzero entries are the pairs E
Adjacency(n, E) ==
  [i \in 1..n |-> [j \in 1..n |-> IF <<i - 1, j - 1>> \in E THEN 1 ELSE 0]]

Probabilities == {FloatOfInt(0), FloatOfInt(1)}

\* seq with x inserted so that it becomes the p-th element
InsertAt(seq, p, x) == SubSeq(seq, 1, p - 1) \o <<x>> \o SubSeq(seq, p, Len(seq))

\* the column layouts over the data columns data: Time at any position
WithTimeAnywhere(data) == {InsertAt(data, p, Time) : p \in 1..(Len(data) + 1)}

\* the tables with columns cols and m rows: the Time cell of row r is the
\* time index r - 1, every other cell a probability
Tables(cols, m) ==
  {[cols |-> cols,
    rows |-> [r \in 1..m |-> [c \in 1..Len(cols) |->
                IF cols[c] = Time THEN FloatOfInt(r - 1) ELSE v[r][c]]]] :
     v \in [1..m -> [1..Len(cols) -> Probabilities]]}

\* every instance is constructed from the same raw table
Constructed(t, adj) ==
  /\ input = t
  /\ raw = t
  /\ A = adj
  /\ own = [i \in Instances |-> ResultsDataframe(t).own]
  /\ alias = [i \in Instances |-> ResultsDataframe(t).alias]
  /\ outcome = [i \in Instances |-> ResultsDataframe(t).out]
  /\ hist = <<>>

\* the scenario of the specification: 4 nodes, edges (0,1) and (2,3)
ScenarioAdjacency == Adjacency(4, {<<0, 1>>, <<2, 3>>})

ScenarioPairs == <<PairName(0, 1, 2), PairName(0, 2, 2), PairName(1, 2, 2), PairName(2, 3, 2)>>

\* the float64 of the decimal literals 0.00, 0.01, ..., 1.00
Hundredths == [h \in 0..100 |-> FloatOfRatio(h, 100)]

ScenarioValues ==
  <<<<Hundredths[20], Hundredths[50], Hundredths[10], Hundredths[30]>>,
    <<Hundredths[80], Hundredths[10], Hundredths[40], Hundredths[60]>>>>

\* the scenario's table with the Time column at position p
ScenarioTable(p) ==
  [cols |-> InsertAt(ScenarioPairs, p, Time),
   rows |-> [r \in 1..2 |-> InsertAt(ScenarioValues[r], p, FloatOfInt(r - 1))]]

\* single-node walk output: opaque column labels, Time anywhere or missing
OpaqueNames == <<<<"A">>, <<"B">>>>

OpaqueLayouts ==
  UNION {WithTimeAnywhere(SubSeq(OpaqueNames, 1, k)) : k \in 0..Len(OpaqueNames)}
  \cup {SubSeq(OpaqueNames, 1, k) : k \in 1..Len(OpaqueNames)}

InitOpaque ==
  \E cols \in OpaqueLayouts, m \in 1..MaxRows :
    \E t \in Tables(cols, m) : Constructed(t, ScenarioAdjacency)

InitScenario ==
  \E p \in 1..(Len(ScenarioPairs) + 1) : Constructed(ScenarioTable(p), ScenarioAdjacency)

Init == InitOpaque \/ InitScenario

\* superposition walk output over n nodes: pair columns labelled with the
\* width the filter derives from n, one or two of them, one row
WellFormed(w) ==
  {PairName(i, j, w) : i \in 0..(Pow2(w) - 1), j \in 0..(Pow2(w) - 1)}

OneOrTwo(S) == {<<a>> : a \in S} \cup {<<a, b>> : <<a, b>> \in {p \in S \X S : p[1] # p[2]}}

\* one row whose data cells differ from column to column
PatternTable(cols) ==
  [cols |-> cols,
   rows |-> <<[c \in 1..Len(cols) |->
                 IF cols[c] = Time THEN FloatOfInt(0) ELSE FloatOfRatio(1, c + 1)]>>]

\* the edge sets of at most two edges over n nodes
EdgeSets(n) ==
  LET P == (0..(n - 1)) \X (0..(n - 1))
  IN  {{}} \cup {{e1, e2} : e1 \in P, e2 \in P}

InitGraph ==
  \E n \in 1..MaxNodes :
    \E E \in EdgeSets(n), data \in OneOrTwo(WellFormed(NumBits(n))) :
      \E cols \in WithTimeAnywhere(data) :
        Constructed(PatternTable(cols), Adjacency(n, E))

\* free-form labels: every string of at most MaxNameLen characters
Alphabet == {"0", "1", " ", "-", "_", "b"}

RECURSIVE Strings(_)
Strings(k) ==
  IF k = 0 THEN {<<>>}
  ELSE LET shorter == Strings(k - 1)
       IN  shorter \cup {<<ch>> \o q : ch \in Alphabet, q \in {x \in shorter : Len(x) = k - 1}}

\* for a pair label of width w: the label alone, or followed by the label
\* of the swapped pair or of the pair with the next target node
PairWithNeighbour(i, j, w) ==
  {<<PairName(i, j, w)>>}
  \cup {<<PairName(i, j, w), other>> :
          other \in {PairName(j, i, w), PairName(i, (j + 1) % Pow2(w), w)}
                    \ {PairName(i, j, w)}}

\* labels written with digits of other scripts and other whitespace: two
\* digits with one whitespace character between them, alone or after it
OtherDigits == {"0", "1", "U+0660", "U+0661", "U+FF11"}

OtherLabels ==
  {<<a, s, b>> : a \in OtherDigits, s \in Whitespace, b \in OtherDigits}
  \cup {<<s, a, s, b>> : a \in OtherDigits, s \in Whitespace, b \in OtherDigits}

InitNames ==
  \/ \E name \in (Strings(MaxNameLen) \ {<<>>}) \cup OtherLabels :
       Constructed(PatternTable(<<Time, name>>), ScenarioAdjacency)
  \/ \E w \in 1..MaxBits :
       \E i \in 0..(Pow2(w) - 1), j \in 0..(Pow2(w) - 1) :
         \E data \in PairWithNeighbour(i, j, w) :
           \E cols \in WithTimeAnywhere(data) :
             Constructed(PatternTable(cols), ScenarioAdjacency)

Next ==
  \E i \in Instances :
    \/ CallFilter(i)
    \/ CallAddMaxAndAvg(i)
    \/ CallConvert(i)
    \/ CallSuperposition(i)
    \/ CallOneNode(i)

Spec == Init /\ [][Next]_vars

\* filtering alone, on superposition tables over every small graph; the
\* second instance stays a reader of the raw table
NextFilter == CallFilter(1)

SpecFilter == InitGraph /\ [][NextFilter]_vars

\* relabelling alone, on free-form and on well-formed labels
NextRelabel == \E i \in Instances : CallConvert(i)

SpecRelabel == InitNames /\ [][NextRelabel]_vars

\* ------------------------------------------------------------ properties
\* the table seen through instance i: self.df
Df(i) == IF alias[i] THEN raw ELSE own[i]

\* this step is the call op on instance i
Called(i, op) == hist' = Append(hist, [op |-> op, inst |-> i])

\* the call op on instance i is the only call made so far
OnlyCall(i, op) == hist = <<[op |-> op, inst |-> i]>>

\* the number written by the binary digit string t, most significant first
RECURSIVE BinaryValue(_)
BinaryValue(t) ==
  IF t = <<>> THEN 0
  ELSE 2 * BinaryValue(SubSeq(t, 1, Len(t) - 1)) + (IF t[Len(t)] = "1" THEN 1 ELSE 0)

IsBinaryString(t) == t # <<>> /\ \A k \in 1..Len(t) : t[k] \in {"0", "1"}

\* the least b with 2^b >= n
WidthFor(n) == CHOOSE b \in 0..n : Pow2(b) >= n /\ (b = 0 \/ Pow2(b - 1) < n)

\* col is a pair label of width len: len binary digits, one space, len
\* binary digits
IsPairLabel(col, len) ==
  /\ Len(col) = 2 * len + 1
  /\ col[len + 1] = " "
  /\ IsBinaryString(SubSeq(col, 1, len))
  /\ IsBinaryString(SubSeq(col, len + 2, 2 * len + 1))

SourceOf(col, len) == BinaryValue(SubSeq(col, 1, len))

TargetOf(col, len) == BinaryValue(SubSeq(col, len + 2, 2 * len + 1))

\* col reads as the pair (a, b) at width len
ReadsAsPair(col, a, b, len) ==
  IsPairLabel(col, len) /\ SourceOf(col, len) = a /\ TargetOf(col, len) = b

\* col names a real edge or a self-pair of the graph adj
NamesEdgeOrSelfPair(col, adj) ==
  LET len == Max2(WidthFor(Len(adj)), 1)
  IN  /\ IsPairLabel(col, len)
      /\ SourceOf(col, len) < Len(adj)
      /\ TargetOf(col, len) < Len(adj)
      /\ \/ adj[SourceOf(col, len) + 1][TargetOf(col, len) + 1] # 0
         \/ SourceOf(col, len) = TargetOf(col, len)

\* t2 is t1 restricted to the columns at the positions idx, in that order
IsProjection(t2, t1, idx) ==
  /\ Len(t2.cols) = Len(idx)
  /\ \A k \in 1..Len(idx) : t2.cols[k] = t1.cols[idx[k]]
  /\ Len(t2.rows) = Len(t1.rows)
  /\ \A r \in 1..Len(t1.rows) :
       /\ Len(t2.rows[r]) = Len(idx)
       /\ \A k \in 1..Len(idx) : t2.rows[r][k] = t1.rows[r][idx[k]]

\* C1: a call of filter_connected_columns with the n x n matrix A returns
\* the instance and leaves exactly the columns that name neither a pair
\* (i,j) with A[i][j] # 0 nor a self-pair (i,i), i,j < n, read at width
\* ceil(log2(n)); they keep their relative order and every row; the Time
\* column is among them whenever the table had one.
C1_FilterRemovesExactlyEdgesAndSelfPairs ==
  [][\A i \in Instances : Called(i, "filter_connected_columns") =>
       LET before == Df(i)
           kept == SelectSeq([c \in 1..Len(before.cols) |-> c],
                             LAMBDA c : ~NamesEdgeOrSelfPair(before.cols[c], A))
       IN  /\ outcome'[i] = "self"
           /\ IsProjection(Df(i)', before, kept)
           /\ HasTime(before) =>
                \E k \in 1..Len(kept) : before.cols[kept[k]] = Time]_vars

\* C1 witness: the first filter call removed a real-edge column (no
\* self-pair) from a table of two pair columns and kept the other one.
C1_Witness ==
  /\ OnlyCall(1, "filter_connected_columns")
  /\ Len(input.cols) = 3
  /\ Len(Df(1).cols) = 2
  /\ \E c \in 1..3 :
       /\ \A k \in 1..2 : Df(1).cols[k] # input.cols[c]
       /\ \E a, b \in 0..(Len(A) - 1) :
            /\ a # b
            /\ A[a + 1][b + 1] # 0
            /\ ReadsAsPair(input.cols[c], a, b, Max2(WidthFor(Len(A)), 1))

\* the labels and statistics of the scenario
Label02 == <<"0", "-", "2">>

Label12 == <<"1", "-", "2">>

Label23 == <<"2", "-", "3">>

\* the last two rows of t
LastTwoRows(t) == SubSeq(t.rows, Len(t.rows) - 1, Len(t.rows))

\* C4 as the scenario states it: postprocess_superposition on the scenario
\* table removes only "00 01", leaving the data columns "0-2", "1-2", "2-3"
\* and the appended rows P-max = [0.5, 0.4, 0.6], P-avg = [0.3, 0.25, 0.45].
C4_ScenarioAsStated ==
  \A i \in Instances :
    (OnlyCall(i, "postprocess_superposition") /\ input = ScenarioTable(1)) =>
      /\ Df(i).cols = <<Time, Label02, Label12, Label23>>
      /\ LastTwoRows(Df(i)) =
           <<<<Str("P-max"), Hundredths[50], Hundredths[40], Hundredths[60]>>,
             <<Str("P-avg"), Hundredths[30], Hundredths[25], Hundredths[45]>>>>

\* C4 amended: postprocess_superposition on the scenario table removes both
\* real-edge columns "00 01" and "10 11", leaving the data columns "0-2",
\* "1-2", the two rows of the raw table under them, and the appended rows
\* P-max = [0.5, 0.4], P-avg = [0.3, 0.25].
C4_ScenarioBothEdgesRemoved ==
  \A i \in Instances :
    (OnlyCall(i, "postprocess_superposition") /\ input = ScenarioTable(1)) =>
      /\ outcome[i] = "self"
      /\ Df(i).cols = <<Time, Label02, Label12>>
      /\ Df(i).rows =
           <<<<FloatOfInt(0), Hundredths[50], Hundredths[10]>>,
             <<FloatOfInt(1), Hundredths[10], Hundredths[40]>>,
             <<Str("P-max"), Hundredths[50], Hundredths[40]>>,
             <<Str("P-avg"), Hundredths[30], Hundredths[25]>>>>

\* C4 witness: postprocess_superposition has run on the scenario table.
C4_Witness ==
  /\ OnlyCall(1, "postprocess_superposition")
  /\ input = ScenarioTable(1)
  /\ A = ScenarioAdjacency
  /\ Len(Df(1).rows) = 4

\* the cells of column c of t, top to bottom
ColumnValues(t, c) == [r \in 1..Len(t.rows) |-> t.rows[r][c]]

\* the exact sum of the numbers cells, [M, E] standing for M * 2^E
RECURSIVE Total(_)
Total(cells) ==
  IF cells = <<>> THEN [M |-> <<>>, E |-> 0]
  ELSE LET x == Head(cells)
           rest == Total(Tail(cells))
           low == IF x.e <= rest.E THEN x.e ELSE rest.E
       IN  IF IsZero(x) THEN rest
           ELSE IF rest.M = <<>> THEN [M |-> BTrim(x.m), E |-> x.e]
           ELSE [M |-> BAddC(BShl(BTrim(x.m), x.e - low), BShl(rest.M, rest.E - low), 0),
                 E |-> low]

\* x is the greatest of the numbers cells
IsMaximumOf(x, cells) ==
  /\ IsNum(x)
  /\ \E r \in 1..Len(cells) : cells[r] = x
  /\ \A r \in 1..Len(cells) : Leq(cells[r], x)

\* x is the arithmetic mean of the numbers cells: the float64 nearest to
\* their exact sum over their count
IsMeanOf(x, cells) ==
  x = RoundedQuotient(Total(cells).M, Total(cells).E, Len(cells))

HasDataColumn(t) == \E c \in 1..Len(t.cols) : t.cols[c] # Time

\* C2 as stated: add_max_and_avg on a table with a Time column, m rows and
\* at least one data column yields m + 2 rows, the first m unchanged, then
\* a row holding each data column's maximum and a row holding each data
\* column's mean, each under its own column.
C2_SummaryRowsHoldColumnStatistics ==
  \A i \in Instances :
    (OnlyCall(i, "add_max_and_avg") /\ HasTime(input) /\ HasDataColumn(input)) =>
      LET t == Df(i)
          m == Len(input.rows)
      IN  /\ t.cols = input.cols
          /\ Len(t.rows) = m + 2
          /\ SubSeq(t.rows, 1, m) = input.rows
          /\ \A c \in 1..Len(input.cols) : input.cols[c] # Time =>
               /\ IsMaximumOf(t.rows[m + 1][c], ColumnValues(input, c))
               /\ IsMeanOf(t.rows[m + 2][c], ColumnValues(input, c))

\* C5 as stated: wherever the Time column sits, the two appended rows hold
\* "P-max" and "P-avg" in their Time cell and every data column's cell of
\* those rows holds that column's own maximum / mean.
C5_SentinelsUnderTimeWhereverItSits ==
  \A i \in Instances :
    (OnlyCall(i, "add_max_and_avg") /\ HasTime(input)) =>
      LET t == Df(i)
          m == Len(input.rows)
      IN  /\ Len(t.rows) = m + 2
          /\ \A c \in 1..Len(input.cols) :
               IF input.cols[c] = Time
               THEN /\ t.rows[m + 1][c] = Str("P-max")
                    /\ t.rows[m + 2][c] = Str("P-avg")
               ELSE /\ IsMaximumOf(t.rows[m + 1][c], ColumnValues(input, c))
                    /\ IsMeanOf(t.rows[m + 2][c], ColumnValues(input, c))

\* C8 as stated: while calls are made on one instance only, the caller's raw
\* table and the table seen through every other instance built from it
\* stay as they were supplied.
C8_OtherTablesUntouched ==
  \A i, j \in Instances :
    (i # j /\ \A k \in 1..Len(hist) : hist[k].inst = i) =>
      /\ raw = input
      /\ Df(j) = input

\* C9: add_max_and_avg and postprocess_one_node on a table without a Time
\* column end in an exception and leave the table's columns and rows as
\* they were.
C9_MissingTimeRaisesAndAppendsNothing ==
  [][\A i \in Instances :
       ((Called(i, "add_max_and_avg") \/ Called(i, "postprocess_one_node"))
          /\ ~HasTime(Df(i))) =>
         /\ outcome'[i] # "self"
         /\ Df(i)' = Df(i)]_vars

\* C9 witness: postprocess_one_node just raised KeyError on a raw table
\* that has data columns and no Time column.
C9_Witness ==
  /\ OnlyCall(1, "postprocess_one_node")
  /\ ~HasTime(input)
  /\ HasDataColumn(input)
  /\ outcome[1] = "KeyError"
  /\ Df(1) = input

\* C10 as stated: filter-then-summary yields the table that
\* summary-then-filter yields, for every table with a Time column.
C10_FilterAndSummaryCommute ==
  \A i \in Instances :
    (/\ hist = <<[op |-> "filter_connected_columns", inst |-> i],
                 [op |-> "add_max_and_avg", inst |-> i]>>
     /\ HasTime(input)) =>
      Df(i) = DF(filter_connected_columns(add_max_and_avg(ResultsDataframe(input)), A))

DigitValue ==
  ("0" :> 0) @@ ("1" :> 1) @@ ("2" :> 2) @@ ("3" :> 3) @@ ("4" :> 4) @@
  ("5" :> 5) @@ ("6" :> 6) @@ ("7" :> 7) @@ ("8" :> 8) @@ ("9" :> 9)

RECURSIVE DecimalValue(_)
DecimalValue(t) ==
  IF t = <<>> THEN 0
  ELSE 10 * DecimalValue(SubSeq(t, 1, Len(t) - 1)) + DigitValue[t[Len(t)]]

\* t writes v >= 0 in decimal without leading zeros
IsDecimalOf(t, v) ==
  /\ t # <<>>
  /\ \A k \in 1..Len(t) : t[k] \in DOMAIN DigitValue
  /\ Len(t) > 1 => t[1] # "0"
  /\ DecimalValue(t) = v

\* label is "a-b"
IsDecimalPair(label, a, b) ==
  \E k \in 1..Len(label) :
    /\ label[k] = "-"
    /\ IsDecimalOf(SubSeq(label, 1, k - 1), a)
    /\ IsDecimalOf(SubSeq(label, k + 1, Len(label)), b)

\* C3: convert_to_decimal returns the instance and renames every column
\* labelled by two b-bit binary numbers a, c (b >= 1) to "a-c" in decimal
\* without leading zeros; Time stays Time, the number and order of the
\* columns and every row stay, and two different pair labels of one width
\* get different new labels.
C3_PairLabelsBecomeDecimalPairs ==
  [][\A i \in Instances : Called(i, "convert_to_decimal") =>
       LET before == Df(i)
           after == Df(i)'
       IN  /\ outcome'[i] = "self"
           /\ Len(after.cols) = Len(before.cols)
           /\ after.rows = before.rows
           /\ \A c \in 1..Len(before.cols) :
                /\ before.cols[c] = Time => after.cols[c] = Time
                /\ \A w \in 1..MaxBits : IsPairLabel(before.cols[c], w) =>
                     IsDecimalPair(after.cols[c], SourceOf(before.cols[c], w),
                                   TargetOf(before.cols[c], w))
           /\ \A c1, c2 \in 1..Len(before.cols) :
                (/\ before.cols[c1] # before.cols[c2]
                 /\ \E w \in 1..MaxBits :
                      IsPairLabel(before.cols[c1], w) /\ IsPairLabel(before.cols[c2], w)) =>
                  after.cols[c1] # after.cols[c2]]_vars

\* C3 witness: the first convert_to_decimal call renamed "1010 1011" to
\* "10-11" and its swapped neighbour to "11-10".
C3_Witness ==
  /\ OnlyCall(1, "convert_to_decimal")
  /\ input.cols = <<PairName(10, 11, 4), Time, PairName(11, 10, 4)>>
  /\ Df(1).cols = <<<<"1", "0", "-", "1", "1">>, Time, <<"1", "1", "-", "1", "0">>>>

\* col consists of two runs of binary digits, separated and possibly
\* surrounded by whitespace, and of nothing else
IsTwoBinaryTokens(col) ==
  \E p1, q1, p2, q2 \in 1..Len(col) :
    /\ p1 <= q1 /\ q1 + 1 < p2 /\ p2 <= q2
    /\ \A k \in 1..Len(col) :
         IF (p1 <= k /\ k <= q1) \/ (p2 <= k /\ k <= q2)
         THEN col[k] \in {"0", "1"}
         ELSE col[k] \in Whitespace

\* C6 as stated: convert_to_decimal leaves unchanged every label other than
\* Time that is not exactly two whitespace-separated tokens made only of
\* the characters 0 and 1.
C6_OnlyBinaryDigitPairsRenamed ==
  \A i \in Instances : OnlyCall(i, "convert_to_decimal") =>
    \A c \in 1..Len(input.cols) :
      (input.cols[c] # Time /\ ~IsTwoBinaryTokens(input.cols[c])) =>
        Df(i).cols[c] = input.cols[c]

\* C7: a convert_to_decimal call that follows a convert_to_decimal call on
\* the same instance changes neither the labels, nor their order, nor any
\* row.
C7_SecondRelabelChangesNothing ==
  [][\A i \in Instances :
       (/\ Called(i, "convert_to_decimal")
        /\ hist # <<>>
        /\ hist[Len(hist)] = [op |-> "convert_to_decimal", inst |-> i]) =>
         /\ outcome'[i] = "self"
         /\ Df(i)' = Df(i)]_vars

\* C7 witness: convert_to_decimal ran twice on instance 1 and the first run
\* did rename a column.
C7_Witness ==
  /\ hist = <<[op |-> "convert_to_decimal", inst |-> 1],
              [op |-> "convert_to_decimal", inst |-> 1]>>
  /\ Df(1).cols # input.cols
  /\ Df(1).rows = input.rows

=============================================================================
